---- MODULE Spec2Model ----
(***************************************************************************)
(* py-mcp-google-toolbox: the credential store (get_google_credentials)    *)
(* and the tool handlers of src/server.py.                                 *)
(*                                                                         *)
(* Spec      : server processes sharing token.json, each running           *)
(*             get_google_credentials (as server.py does at start-up and   *)
(*             at the head of a tool call); a process may crash.           *)
(* SpecTools : one server process serving tool calls, from the call of     *)
(*             get_google_credentials to the value handed to the MCP       *)
(*             dispatch layer.                                             *)
(* SpecEvent : update_event's read-merge-write against the calendar.       *)
(***************************************************************************)
EXTENDS Integers, Sequences, FiniteSets, TLC

\* ------------------------------------------------------------------ bounds
MaxTime == 3
TokenTTL == 2
MaxIssued == 3

\* The server processes that share token.json (client.py starts one per call).
Procs == {"p1", "p2"}

\* ------------------------------------------------- credentials (in memory)
\* token=None of a Credentials object; access tokens are numbered from 1 in
\* the order the token endpoint issues them.
NoToken == 0
\* expiry=None of a Credentials object.
NoExpiry == -1

\* creds = None
NoCreds == [some |-> FALSE, token |-> NoToken, expiry |-> NoExpiry, rt |-> "none"]

\* Credentials(token=None, refresh_token=GOOGLE_REFRESH_TOKEN, ...): no token,
\* no expiry, the refresh token of the environment.
BootstrapCreds == [some |-> TRUE, token |-> NoToken, expiry |-> NoExpiry, rt |-> "env"]

\* token.json
FileAbsent == [kind |-> "absent", token |-> NoToken, expiry |-> NoExpiry, rt |-> "none"]
FileGarbage == [kind |-> "garbage", token |-> NoToken, expiry |-> NoExpiry, rt |-> "none"]
\* token.json right after open(TOKEN_FILE, 'w'): it exists and is empty.
FileTruncated == [kind |-> "truncated", token |-> NoToken, expiry |-> NoExpiry, rt |-> "none"]

FileRecords ==
    [kind : {"record"}, token : {NoToken, 1}, expiry : {NoExpiry, 1, MaxTime + 1},
     rt : {"none", "file"}]

\* creds.to_json() written to token.json
ToJson(c) == [kind |-> "record", token |-> c.token, expiry |-> c.expiry, rt |-> c.rt]

\* A load that takes whatever the file holds for a record to refresh.
LoadFileNoParseCheck(f, t) ==
    IF f.kind = "absent" THEN NoCreds
    ELSE [some |-> TRUE, token |-> f.token,
          expiry |-> IF f.expiry = NoExpiry THEN t ELSE f.expiry, rt |-> "file"]

\* os.path.exists(TOKEN_FILE) and Credentials.from_authorized_user_file: a file
\* that is absent or does not parse leaves creds = None; a record without an
\* expiry is loaded as already expired (google-auth sets expiry to
\* utcnow() - REFRESH_THRESHOLD when the file has none).
LoadFile(f, t) ==
    IF f.kind = "record"
    THEN [some |-> TRUE, token |-> f.token,
          expiry |-> IF f.expiry = NoExpiry THEN t ELSE f.expiry, rt |-> f.rt]
    ELSE NoCreds

\* creds.expired
Expired(c, t) == c.expiry # NoExpiry /\ t >= c.expiry

\* creds.valid
Valid(c, t) == c.token # NoToken /\ ~Expired(c, t)

\* The branch of a get_google_credentials that refreshes whatever it loaded.
AcquireBranchAlwaysRefresh(c, t, env) ==
    IF c.some /\ c.rt # "none" THEN "stored"
    ELSE IF env THEN "boot"
    ELSE "fail"

\* The branch get_google_credentials takes with creds loaded, at time t:
\*   "return"  line 160 at once, "stored" lines 128-137, "boot" lines 138-155,
\*   "fail" lines 156-158.
AcquireBranch(c, t, env) ==
    IF c.some /\ Valid(c, t) THEN "return"
    ELSE IF c.some /\ Expired(c, t) /\ c.rt # "none" THEN "stored"
    ELSE IF env THEN "boot"
    ELSE "fail"

\* creds.refresh(Request()) succeeding: the endpoint's next access token, valid
\* for TokenTTL from now.
Refreshed(c, n, t) == [c EXCEPT !.token = n, !.expiry = t + TokenTTL]

\* ------------------------------------------------------------ tool handlers
\* The tools registered with @mcp.tool.
Tools ==
    {"list_emails", "search_emails", "send_email", "modify_email",
     "list_events", "create_event", "update_event", "delete_event",
     "search_google", "read_gdrive_file", "search_gdrive"}

\* The handlers that return a dictionary with a "success" key.
DictTools == {"search_google", "read_gdrive_file", "search_gdrive"}

\* The handlers whose result on success is a list of records.
ListTools == {"list_emails", "search_emails", "list_events"}

\* The handlers that begin with creds = get_google_credentials().
UsesCredentials(t) == t # "search_google"

\* What the external service does with the handler's calls: all of them succeed,
\* one raises HttpError (with a status, and a body that is UTF-8 or not), or
\* something else raises.
ExtOutcomes ==
    [kind : {"ok"}, status : {200}, utf8 : {TRUE}]
        \cup [kind : {"http"}, status : {404, 500}, utf8 : BOOLEAN]
        \cup [kind : {"fault"}, status : {0}, utf8 : {TRUE}]

\* No value yet.
NoResult == [raised |-> FALSE, shape |-> "none", success |-> FALSE, errKey |-> FALSE,
             msg |-> "none", data |-> "none", ext |-> FALSE]

\* A value a handler returns: a string, a list ("data") or a dictionary with its
\* "success" flag, whether it has an "error" key, and its results/files/content;
\* ext: whether the handler called the external service.
StrResult(m, e) ==
    [raised |-> FALSE, shape |-> "str", success |-> FALSE, errKey |-> FALSE,
     msg |-> m, data |-> "none", ext |-> e]

DictError(m, d, e) ==
    [raised |-> FALSE, shape |-> "dict", success |-> FALSE, errKey |-> TRUE,
     msg |-> m, data |-> d, ext |-> e]

\* An exception that leaves the handler.
Escaped(m) ==
    [raised |-> TRUE, shape |-> "none", success |-> FALSE, errKey |-> FALSE,
     msg |-> m, data |-> "none", ext |-> TRUE]

\* if not creds: return "Google authentication failed." (a dictionary with that
\* error in read_gdrive_file and search_gdrive).
AuthFailedResult(t) ==
    IF t \in DictTools THEN DictError("AuthFailed", "none", FALSE)
    ELSE StrResult("AuthFailed", FALSE)

\* The return at the end of the try block.
OkResult(t) ==
    IF t \in DictTools
    THEN [raised |-> FALSE, shape |-> "dict", success |-> TRUE, errKey |-> FALSE,
          msg |-> "Ok", data |-> "full", ext |-> TRUE]
    ELSE IF t \in ListTools
    THEN [raised |-> FALSE, shape |-> "data", success |-> FALSE, errKey |-> FALSE,
          msg |-> "Ok", data |-> "full", ext |-> TRUE]
    ELSE StrResult("Ok", TRUE)

\* The "results": [] / "files": [] a failure dictionary carries (none in
\* read_gdrive_file).
FailureData(t) == IF t = "read_gdrive_file" THEN "none" ELSE "empty"

\* An except HttpError branch that reports success beside the error.
HttpErrorResultSuccessFlag(t, o) ==
    IF t \in DictTools
    THEN [raised |-> FALSE, shape |-> "dict", success |-> TRUE, errKey |-> TRUE,
          msg |-> "External", data |-> FailureData(t), ext |-> TRUE]
    ELSE StrResult("External", TRUE)

\* except HttpError as error: the dictionary handlers format str(error); update_event
\* and delete_event answer a 404 with their not-found message; the others format
\* error.resp.status and error.content.decode(), which raises UnicodeDecodeError
\* out of the except clause when the body is not UTF-8.
HttpErrorResult(t, o) ==
    IF t \in DictTools THEN DictError("External", FailureData(t), TRUE)
    ELSE IF t \in {"update_event", "delete_event"} /\ o.status = 404
    THEN StrResult("NotFound", TRUE)
    ELSE IF o.utf8 THEN StrResult("External", TRUE)
    ELSE Escaped("UnicodeDecodeError")

\* except Exception as e
FaultResult(t) ==
    IF t \in DictTools THEN DictError("Internal", FailureData(t), TRUE)
    ELSE StrResult("Internal", TRUE)

\* The try block and its except clauses, for the external outcome o.
TryResult(t, o) ==
    CASE o.kind = "ok" -> OkResult(t)
      [] o.kind = "http" -> HttpErrorResult(t, o)
      [] OTHER -> FaultResult(t)

\* A handler that goes on to the external call whatever get_google_credentials
\* returned.
HandlerResultNoAuthGuard(t, credsOk, emptyLabels, o) ==
    IF t = "modify_email" /\ emptyLabels THEN StrResult("Validation", FALSE)
    ELSE TryResult(t, o)

\* A modify_email that goes on to the mail service with both label lists empty.
HandlerResultNoLabelCheck(t, credsOk, emptyLabels, o) ==
    IF UsesCredentials(t) /\ ~credsOk THEN AuthFailedResult(t)
    ELSE TryResult(t, o)

\* A handler from the return of get_google_credentials on: the creds guard,
\* modify_email's check of its label lists, then the try block.
HandlerResult(t, credsOk, emptyLabels, o) ==
    IF UsesCredentials(t) /\ ~credsOk THEN AuthFailedResult(t)
    ELSE IF t = "modify_email" /\ emptyLabels THEN StrResult("Validation", FALSE)
    ELSE TryResult(t, o)

\* The MCP dispatch layer (FastMCP, behind @mcp.tool): a value the handler returns
\* is the content of a result with isError false; an exception that leaves the
\* handler is answered with isError true.
Dispatch(r) == [isError |-> r.raised, content |-> r]

\* ------------------------------------------------------------- update_event
\* The keys of a calendar event that update_event can set.
EventFields == {"summary", "location", "description", "start", "end", "attendees"}

\* The keys a stored event may lack.
OptionalFields == {"location", "description", "attendees"}

\* An event of the calendar with the optional keys O: a dictionary, here a
\* function from its keys.
StoredEvent(O) ==
    [f \in (EventFields \ OptionalFields) \cup O |->
        CASE f = "summary" -> "s0"
          [] f = "location" -> "l0"
          [] f = "description" -> "d0"
          [] f = "start" -> [dateTime |-> "t0", timeZone |-> "UTC"]
          [] f = "end" -> [dateTime |-> "t1", timeZone |-> "UTC"]
          [] OTHER -> <<[email |-> "a", responseStatus |-> "accepted"]>>]

\* An argument of update_event: None (not given) or a value.
NotGiven == [given |-> FALSE, val |-> "none"]
Given(S) == [given : {TRUE}, val : S]

\* The argument bags of update_event.
ArgBags ==
    [summary : {NotGiven} \cup Given({"s1"}),
     location : {NotGiven} \cup Given({"l1"}),
     description : {NotGiven} \cup Given({"d1"}),
     start : {NotGiven} \cup Given({"t2"}),
     end : {NotGiven} \cup Given({"t3"}),
     attendees : {NotGiven} \cup Given({<<>>, <<"b">>})]

NoArgs ==
    [summary |-> NotGiven, location |-> NotGiven, description |-> NotGiven,
     start |-> NotGiven, end |-> NotGiven, attendees |-> NotGiven]

\* The value update_event puts in update_payload for a given argument (lines
\* 547-552): start and end with event_tz, attendees as [{'email': email}].
PayloadValue(f, v) ==
    CASE f \in {"start", "end"} -> [dateTime |-> v, timeZone |-> "Asia/Seoul"]
      [] f = "attendees" -> [i \in 1..Len(v) |-> [email |-> v[i]]]
      [] OTHER -> v

\* update_payload: the arguments that are not None.
UpdatePayload(a) ==
    [f \in {g \in EventFields : a[g].given} |-> PayloadValue(f, a[f].val)]

\* event.update(update_payload)
DictUpdate(e, pl) ==
    [f \in DOMAIN e \cup DOMAIN pl |-> IF f \in DOMAIN pl THEN pl[f] ELSE e[f]]

\* An update_event that sends update_payload alone as the body.
UpdateBodyPayloadOnly(e, a) == UpdatePayload(a)

\* The body update_event sends to events().update: the fetched event with
\* update_payload laid over it (line 555).
UpdateBody(e, a) == DictUpdate(e, UpdatePayload(a))

\* No event (nothing fetched, nothing sent).
NoEvent == <<>>

\* No call of the calendar service made yet.
NoOutcome == [kind |-> "none", status |-> 0, utf8 |-> TRUE]

\* The calendar with no update_event or delete_event running; op is the handler
\* that runs, last the outcome of its latest call of the calendar service.
CalIdle ==
    [pc |-> "idle", op |-> "none", exists |-> TRUE, event |-> StoredEvent({}), args |-> NoArgs,
     fetched |-> NoEvent, body |-> NoEvent, sent |-> FALSE, last |-> NoOutcome,
     res |-> NoResult]

\* No handler is being followed alone.
IoIdle == [pc |-> "idle"]

VARIABLES
    now,        \* the clock
    file,       \* token.json
    envSecrets, \* GOOGLE_REFRESH_TOKEN, GOOGLE_CLIENT_ID and GOOGLE_CLIENT_SECRET all set
    issued,     \* access tokens the token endpoint has issued
    pc,         \* each process's place
    tool,       \* the tool a process is serving ("none": get_google_credentials alone)
    creds,      \* get_google_credentials' local creds
    acq,        \* what the current get_google_credentials call has done
    ret,        \* what get_google_credentials returned
    result,     \* what the handler handed to the dispatch layer
    cal,        \* the calendar and the update_event call against it
    io          \* one call of a handler followed alone: its arguments and what it did

vars == <<now, file, envSecrets, issued, pc, tool, creds, acq, ret, result, cal, io>>

\* What one call of get_google_credentials has done so far.
\* found: what token.json was when the call read it.
AcqFresh ==
    [called |-> FALSE, found |-> "none", path |-> "none", refreshes |-> 0, failed |-> FALSE,
     wrote |-> FALSE]

Init ==
    /\ now = 0
    /\ file \in {FileAbsent, FileGarbage} \cup FileRecords
    /\ envSecrets \in BOOLEAN
    /\ issued = 1
    /\ pc = [p \in Procs |-> "idle"]
    /\ tool = [p \in Procs |-> "none"]
    /\ creds = [p \in Procs |-> NoCreds]
    /\ acq = [p \in Procs |-> AcqFresh]
    /\ ret = [p \in Procs |-> NoCreds]
    /\ result = [p \in Procs |-> NoResult]
    /\ cal = CalIdle
    /\ io = IoIdle

\* The clock advances.
Tick ==
    /\ now < MaxTime
    /\ now' = now + 1
    /\ UNCHANGED <<io, cal, file, envSecrets, issued, pc, tool, creds, acq, ret, result>>

\* get_google_credentials is entered (line 119: creds = None).
Call(p) ==
    /\ pc[p] = "idle"
    /\ pc' = [pc EXCEPT ![p] = "load"]
    /\ acq' = [acq EXCEPT ![p] = [AcqFresh EXCEPT !.called = TRUE]]
    /\ UNCHANGED <<io, cal, now, file, envSecrets, issued, tool, creds, ret, result>>

\* Lines 120-128, 138, 156-160: the file is read and the branch is taken.
Load(p) ==
    /\ pc[p] = "load"
    /\ LET c == LoadFile(file, now)
           b == AcquireBranch(c, now, envSecrets)
       IN  /\ acq' = [acq EXCEPT ![p].path = b, ![p].found = file.kind]
           /\ CASE b = "return" ->
                    /\ pc' = [pc EXCEPT ![p] = "returned"]
                    /\ creds' = creds
                    /\ ret' = [ret EXCEPT ![p] = c]
                [] b = "stored" ->
                    /\ pc' = [pc EXCEPT ![p] = "refresh"]
                    /\ creds' = [creds EXCEPT ![p] = c]
                    /\ ret' = ret
                [] b = "boot" ->
                    /\ pc' = [pc EXCEPT ![p] = "refresh"]
                    /\ creds' = [creds EXCEPT ![p] = BootstrapCreds]
                    /\ ret' = ret
                [] OTHER ->
                    /\ pc' = [pc EXCEPT ![p] = "returned"]
                    /\ creds' = creds
                    /\ ret' = [ret EXCEPT ![p] = NoCreds]
    /\ UNCHANGED <<io, cal, now, file, envSecrets, issued, tool, result>>

\* creds.refresh(Request()) succeeds (lines 131, 149).
RefreshOk(p) ==
    /\ pc[p] = "refresh"
    /\ issued < MaxIssued
    /\ issued' = issued + 1
    /\ creds' = [creds EXCEPT ![p] = Refreshed(creds[p], issued + 1, now)]
    /\ acq' = [acq EXCEPT ![p].refreshes = @ + 1]
    /\ pc' = [pc EXCEPT ![p] = "open"]
    /\ UNCHANGED <<io, cal, now, file, envSecrets, tool, ret, result>>

\* A get_google_credentials that opens the file for writing before it refreshes.
AfterRefreshFailureOpenedFirst(f) == [file |-> FileTruncated, ret |-> NoCreds, pc |-> "returned"]

\* A get_google_credentials that tries the refresh again when it raises.
AfterRefreshFailureRetry(f) == [file |-> f, ret |-> NoCreds, pc |-> "refresh"]

\* What get_google_credentials leaves when creds.refresh raises (lines 135-137,
\* 153-155): the file as it is, and None returned at once (return None in the
\* except clause).
AfterRefreshFailure(f) == [file |-> f, ret |-> NoCreds, pc |-> "returned"]

\* creds.refresh(Request()) raises.
RefreshFail(p) ==
    /\ pc[p] = "refresh"
    /\ LET a == AfterRefreshFailure(file)
       IN  /\ file' = a.file
           /\ ret' = [ret EXCEPT ![p] = a.ret]
           /\ acq' = [acq EXCEPT ![p].refreshes = @ + 1, ![p].failed = TRUE,
                                 ![p].wrote = (a.file # file)]
           /\ pc' = [pc EXCEPT ![p] = a.pc]
           /\ creds' = [creds EXCEPT ![p] = IF a.pc = "returned" THEN NoCreds ELSE @]
    /\ UNCHANGED <<io, cal, now, envSecrets, issued, tool, result>>

\* open(TOKEN_FILE, 'w') (lines 132, 150) creates or empties the file.
OpenForWrite(f) == FileTruncated

OpenWrite(p) ==
    /\ pc[p] = "open"
    /\ file' = OpenForWrite(file)
    /\ acq' = [acq EXCEPT ![p].wrote = TRUE]
    /\ pc' = [pc EXCEPT ![p] = "write"]
    /\ UNCHANGED <<io, cal, now, envSecrets, issued, tool, creds, ret, result>>

\* token.write(creds.to_json()) and the close of the with block (lines 133,
\* 151), then return creds (line 160).
WriteClose(p) ==
    /\ pc[p] = "write"
    /\ file' = ToJson(creds[p])
    /\ ret' = [ret EXCEPT ![p] = creds[p]]
    /\ creds' = [creds EXCEPT ![p] = NoCreds]
    /\ pc' = [pc EXCEPT ![p] = "returned"]
    /\ UNCHANGED <<io, cal, now, envSecrets, issued, tool, acq, result>>

\* get_google_credentials called alone (line 896) has returned.
Return(p) ==
    /\ pc[p] = "returned"
    /\ tool[p] = "none"
    /\ pc' = [pc EXCEPT ![p] = "idle"]
    /\ acq' = [acq EXCEPT ![p] = AcqFresh]
    /\ ret' = [ret EXCEPT ![p] = NoCreds]
    /\ UNCHANGED <<io, cal, now, file, envSecrets, issued, tool, creds, result>>

\* The server process dies and is started again: its memory is lost, the file
\* stays as it is.
Crash(p) ==
    /\ pc[p] # "idle"
    /\ pc' = [pc EXCEPT ![p] = "idle"]
    /\ tool' = [tool EXCEPT ![p] = "none"]
    /\ creds' = [creds EXCEPT ![p] = NoCreds]
    /\ acq' = [acq EXCEPT ![p] = AcqFresh]
    /\ ret' = [ret EXCEPT ![p] = NoCreds]
    /\ result' = [result EXCEPT ![p] = NoResult]
    /\ UNCHANGED <<io, cal, now, file, envSecrets, issued>>

Next ==
    \/ Tick
    \/ \E p \in Procs : Call(p)
    \/ \E p \in Procs : Load(p)
    \/ \E p \in Procs : RefreshOk(p)
    \/ \E p \in Procs : RefreshFail(p)
    \/ \E p \in Procs : OpenWrite(p)
    \/ \E p \in Procs : WriteClose(p)
    \/ \E p \in Procs : Return(p)
    \/ \E p \in Procs : Crash(p)

Spec == Init /\ [][Next]_vars

\* ------------------------------------------------------ serving a tool call
\* The process that serves tool calls in SpecTools.
ToolServer == "p1"

\* A tool call arrives: the handler is entered, and all but search_google call
\* get_google_credentials first.
StartTool(p, t) ==
    /\ pc[p] = "idle"
    /\ tool' = [tool EXCEPT ![p] = t]
    /\ IF UsesCredentials(t)
       THEN /\ pc' = [pc EXCEPT ![p] = "load"]
            /\ acq' = [acq EXCEPT ![p] = [AcqFresh EXCEPT !.called = TRUE]]
       ELSE /\ pc' = [pc EXCEPT ![p] = "body"]
            /\ acq' = acq
    /\ UNCHANGED <<io, cal, now, file, envSecrets, issued, creds, ret, result>>

\* The rest of the handler, with get_google_credentials returned (or never
\* called): the value or exception it ends with.
RunHandler(p) ==
    /\ tool[p] \in Tools
    /\ pc[p] = IF UsesCredentials(tool[p]) THEN "returned" ELSE "body"
    /\ \E o \in ExtOutcomes, emptyLabels \in BOOLEAN :
        result' = [result EXCEPT ![p] = HandlerResult(tool[p], ret[p].some, emptyLabels, o)]
    /\ pc' = [pc EXCEPT ![p] = "done"]
    /\ UNCHANGED <<io, cal, now, file, envSecrets, issued, tool, creds, acq, ret>>

\* The dispatch layer has answered the call; the server waits for the next.
Finish(p) ==
    /\ pc[p] = "done"
    /\ pc' = [pc EXCEPT ![p] = "idle"]
    /\ tool' = [tool EXCEPT ![p] = "none"]
    /\ acq' = [acq EXCEPT ![p] = AcqFresh]
    /\ ret' = [ret EXCEPT ![p] = NoCreds]
    /\ result' = [result EXCEPT ![p] = NoResult]
    /\ UNCHANGED <<io, cal, now, file, envSecrets, issued, creds>>

NextTools ==
    \/ Tick
    \/ \E t \in Tools : StartTool(ToolServer, t)
    \/ Load(ToolServer)
    \/ RefreshOk(ToolServer)
    \/ RefreshFail(ToolServer)
    \/ OpenWrite(ToolServer)
    \/ WriteClose(ToolServer)
    \/ RunHandler(ToolServer)
    \/ Finish(ToolServer)

SpecTools == Init /\ [][NextTools]_vars

\* ------------------------------------------------- update_event, step by step
credVars == <<now, file, envSecrets, issued, pc, tool, creds, acq, ret, result>>

InitEvent ==
    /\ now = 0
    /\ file = FileAbsent
    /\ envSecrets = FALSE
    /\ issued = 1
    /\ pc = [p \in Procs |-> "idle"]
    /\ tool = [p \in Procs |-> "none"]
    /\ creds = [p \in Procs |-> NoCreds]
    /\ acq = [p \in Procs |-> AcqFresh]
    /\ ret = [p \in Procs |-> NoCreds]
    /\ result = [p \in Procs |-> NoResult]
    /\ cal \in {[CalIdle EXCEPT !.event = StoredEvent(O)] : O \in SUBSET OptionalFields}
    /\ io = IoIdle

\* The outcomes the calendar can give a call on the event: a 404 exactly when
\* the event does not exist.
CalOutcomes(exists) ==
    {o \in ExtOutcomes :
        /\ o.kind = "ok" => exists
        /\ o.kind = "http" => (o.status = 404 <=> ~exists)}

\* update_event is called with the argument bag a; credsOk is what
\* get_google_credentials returned (lines 534-536).
UpdateEventCall ==
    /\ cal.pc = "idle"
    /\ \E a \in ArgBags, credsOk \in BOOLEAN :
        cal' = IF credsOk
               THEN [cal EXCEPT !.pc = "fetch", !.op = "update_event", !.args = a,
                                !.fetched = NoEvent, !.body = NoEvent, !.sent = FALSE,
                                !.res = NoResult]
               ELSE [cal EXCEPT !.pc = "done", !.op = "update_event", !.args = a,
                                !.fetched = NoEvent, !.body = NoEvent, !.sent = FALSE,
                                !.res = AuthFailedResult("update_event")]
    /\ UNCHANGED <<credVars, io>>

\* An update_event that goes on to events().update whatever events().get did.
FetchNextAlwaysWrite(o) == "write"

\* Where update_event goes after events().get: on to the write, or, the
\* exception leaving the try block, to its except clauses and the return.
FetchNext(o) == IF o.kind = "ok" THEN "write" ELSE "done"

\* service.events().get(...).execute() (line 543)
EventFetch ==
    /\ cal.pc = "fetch"
    /\ \E o \in CalOutcomes(cal.exists) :
        cal' = IF FetchNext(o) = "write"
               THEN [cal EXCEPT !.pc = "write", !.last = o,
                                !.fetched = IF o.kind = "ok" THEN cal.event ELSE NoEvent]
               ELSE [cal EXCEPT !.pc = "done", !.last = o,
                                !.res = TryResult("update_event", o)]
    /\ UNCHANGED <<credVars, io>>

\* Lines 546-559: the body is built and sent with events().update, which
\* replaces the stored event.
EventWrite ==
    /\ cal.pc = "write"
    /\ LET b == UpdateBody(cal.fetched, cal.args)
       IN  \E o \in CalOutcomes(cal.exists) :
            cal' = IF o.kind = "ok"
                   THEN [cal EXCEPT !.pc = "done", !.body = b, !.sent = TRUE, !.last = o,
                                    !.event = b, !.res = OkResult("update_event")]
                   ELSE [cal EXCEPT !.pc = "done", !.body = b, !.sent = TRUE, !.last = o,
                                    !.res = TryResult("update_event", o)]
    /\ UNCHANGED <<credVars, io>>

\* delete_event from entry to return (lines 583-602): the creds guard, then
\* events().delete, which removes the event when it succeeds.
DeleteEventCall ==
    /\ cal.pc = "idle"
    /\ \E credsOk \in BOOLEAN, o \in CalOutcomes(cal.exists) :
        LET r == HandlerResult("delete_event", credsOk, FALSE, o)
        IN  cal' = [cal EXCEPT !.pc = "done", !.op = "delete_event", !.res = r,
                               !.last = IF r.ext THEN o ELSE NoOutcome,
                               !.exists = IF r.ext /\ o.kind = "ok" THEN FALSE ELSE @]
    /\ UNCHANGED <<credVars, io>>

\* update_event or delete_event has returned.
EventFinish ==
    /\ cal.pc = "done"
    /\ cal' = [CalIdle EXCEPT !.exists = cal.exists, !.event = cal.event]
    /\ UNCHANGED <<credVars, io>>

\* Another client of the calendar changes the event's location.
CalendarEdit ==
    /\ cal.exists
    /\ cal' = [cal EXCEPT !.event = DictUpdate(cal.event, [f \in {"location"} |-> "l2"])]
    /\ UNCHANGED <<credVars, io>>

\* Another client of the calendar deletes the event.
CalendarDelete ==
    /\ cal.exists
    /\ cal' = [cal EXCEPT !.exists = FALSE]
    /\ UNCHANGED <<credVars, io>>

NextEvent ==
    \/ UpdateEventCall
    \/ DeleteEventCall
    \/ EventFetch
    \/ EventWrite
    \/ EventFinish
    \/ CalendarEdit
    \/ CalendarDelete

SpecEvent == InitEvent /\ [][NextEvent]_vars

\* ------------------------------------------------------------- modify_email
\* The credential processes at rest and the calendar untouched: the start of
\* the specifications that follow one handler alone.
RestIdle ==
    /\ now = 0
    /\ file = FileAbsent
    /\ envSecrets = FALSE
    /\ issued = 1
    /\ pc = [p \in Procs |-> "idle"]
    /\ tool = [p \in Procs |-> "none"]
    /\ creds = [p \in Procs |-> NoCreds]
    /\ acq = [p \in Procs |-> AcqFresh]
    /\ ret = [p \in Procs |-> NoCreds]
    /\ result = [p \in Procs |-> NoResult]
    /\ cal = CalIdle

restVars == <<credVars, cal>>

\* The longest label list of a modify_email call.
MaxLabels == 2

LabelIds == {"INBOX", "UNREAD"}

\* The lists a caller can pass for add_labels and remove_labels, the empty one
\* included.
LabelLists == UNION {[1..n -> LabelIds] : n \in 0..MaxLabels}

\* add_labels / remove_labels: None or a list.
LabelArgs == {NotGiven} \cup Given(LabelLists)

MessageIds == {"m1", "m2"}

\* Python's truth of an Optional[List]: None and [] are both false.
Truthy(a) == a.given /\ a.val # <<>>

\* The body modify_email builds (lines 389-393): a key for each list that is
\* true.
ModifyBody(add, rem) ==
    [k \in ({"addLabelIds"} \cap {IF Truthy(add) THEN "addLabelIds" ELSE "none"})
            \cup ({"removeLabelIds"} \cap {IF Truthy(rem) THEN "removeLabelIds" ELSE "none"}) |->
        IF k = "addLabelIds" THEN add.val ELSE rem.val]

\* modify_email from entry to return; credsOk is what get_google_credentials
\* returned, o what users().messages().modify does when it is called.
ModifyEmailCall ==
    /\ io.pc = "idle"
    /\ \E id \in MessageIds, add \in LabelArgs, rem \in LabelArgs,
          credsOk \in BOOLEAN, o \in ExtOutcomes :
        LET r == HandlerResult("modify_email", credsOk, ~Truthy(add) /\ ~Truthy(rem), o)
        IN  io' = [pc |-> "done", id |-> id, add |-> add, rem |-> rem, credsOk |-> credsOk,
                   sent |-> r.ext,
                   body |-> IF r.ext THEN ModifyBody(add, rem) ELSE NoEvent,
                   res |-> r]
    /\ UNCHANGED restVars

\* The dispatch layer has answered; the server waits for the next call.
IoFinish ==
    /\ io.pc = "done"
    /\ io' = IoIdle
    /\ UNCHANGED restVars

InitMail == RestIdle /\ io = IoIdle

NextMail ==
    \/ ModifyEmailCall
    \/ IoFinish

SpecMail == InitMail /\ [][NextMail]_vars

\* ---------------------------------------------------------- _get_email_body
\* The most nodes (the payload and its parts, at every level) of a payload.
MaxNodes == 4

\* The body data of a part: base64url text. The last one is the byte 0xFF.
DataValues == {"aGVsbG8=", "d29ybGQ=", "_w=="}

\* base64.urlsafe_b64decode
B64Decode(d) ==
    CASE d = "aGVsbG8=" -> "hello"
      [] d = "d29ybGQ=" -> "world"
      [] OTHER -> "\\xff"

\* A value _get_email_body returns, and an exception it raises.
Returned(t) == [raised |-> FALSE, text |-> t]
Raised(e) == [raised |-> TRUE, text |-> e]

\* base64.urlsafe_b64decode(data).decode('utf-8'): bytes that are not UTF-8
\* raise UnicodeDecodeError.
DecodeData(d) ==
    IF B64Decode(d) = "\\xff" THEN Raised("UnicodeDecodeError")
    ELSE Returned(B64Decode(d))

NoBodyContent == "(No body content)"
CouldNotExtract == "(Could not extract plain text body)"

\* The parts without 'parts': text/plain parts with each body, an HTML part and
\* a part with no 'mimeType' key (mime "absent"). Body "absent" is a part with
\* no 'body' key, "nodata" a body with no 'data' key.
Leaves ==
    [mime : {"text/plain"}, body : {"absent"} \cup DataValues,
     hasParts : {FALSE}, parts : {<<>>}]
        \cup [mime : {"text/html", "absent"}, body : {"aGVsbG8="},
              hasParts : {FALSE}, parts : {<<>>}]

ContainerMimes == {"multipart/alternative", "multipart/mixed"}

\* The payloads (and parts) of exactly n nodes, and the part lists of exactly n
\* nodes in all.
RECURSIVE TreesOfSize(_), ForestsOfSize(_)
TreesOfSize(n) ==
    (IF n = 1 THEN Leaves ELSE {}) \cup
        {[mime |-> m, body |-> "nodata", hasParts |-> TRUE, parts |-> f] :
            m \in ContainerMimes, f \in ForestsOfSize(n - 1)}

ForestsOfSize(n) ==
    IF n = 0 THEN {<<>>}
    ELSE UNION {{<<t>> \o f : t \in TreesOfSize(k), f \in ForestsOfSize(n - k)} : k \in 1..n}

\* The payload {} (and None).
EmptyPayload == [mime |-> "absent", body |-> "absent", hasParts |-> FALSE, parts |-> <<>>]

Payloads == {EmptyPayload} \cup UNION {TreesOfSize(n) : n \in 1..MaxNodes}

\* part['mimeType'] == 'text/plain' and 'body' in part and 'data' in part['body'],
\* for a part that has a 'mimeType'.
PlainWithData(part) == part.mime = "text/plain" /\ part.body \in DataValues

\* A value for "the loop ended without a return".
FellThrough == [raised |-> FALSE, text |-> "none"]

\* A loop over parts that looks for text/plain (lines 178-180, 183-185): the
\* first part that has no 'mimeType' (KeyError) or is text/plain with data ends
\* it.
PlainLoop(parts) ==
    LET stops == {i \in 1..Len(parts) : parts[i].mime = "absent" \/ PlainWithData(parts[i])}
    IN  IF stops = {} THEN FellThrough
        ELSE LET i == CHOOSE j \in stops : \A k \in stops : j <= k
             IN  IF parts[i].mime = "absent" THEN Raised("KeyError")
                 ELSE DecodeData(parts[i].body)

\* The second loop (lines 181-185), from part i on: the text/plain sub-parts of
\* the multipart/alternative parts; every part has a 'mimeType' here.
RECURSIVE AlternativeLoop(_, _)
AlternativeLoop(parts, i) ==
    IF i > Len(parts) THEN FellThrough
    ELSE LET inner == IF parts[i].mime = "multipart/alternative" /\ parts[i].hasParts
                      THEN PlainLoop(parts[i].parts)
                      ELSE FellThrough
         IN  IF inner # FellThrough THEN inner ELSE AlternativeLoop(parts, i + 1)

\* Lines 186-190: the payload's own body, its mimeType text/plain by default.
OwnBody(payload) ==
    IF payload.body \in DataValues /\ payload.mime \in {"absent", "text/plain"}
    THEN DecodeData(payload.body)
    ELSE Returned(CouldNotExtract)

\* _get_email_body
GetEmailBody(payload) ==
    IF payload = EmptyPayload THEN Returned(NoBodyContent)
    ELSE LET first == IF payload.hasParts THEN PlainLoop(payload.parts) ELSE FellThrough
             second == IF payload.hasParts /\ first = FellThrough
                       THEN AlternativeLoop(payload.parts, 1)
                       ELSE FellThrough
         IN  IF first # FellThrough THEN first
             ELSE IF second # FellThrough THEN second
             ELSE OwnBody(payload)

InitBody == RestIdle /\ io \in [pc : {"idle"}, payload : Payloads]

\* _get_email_body is applied to the payload.
GetEmailBodyCall ==
    /\ io.pc = "idle"
    /\ io' = [pc |-> "done", payload |-> io.payload, out |-> GetEmailBody(io.payload)]
    /\ UNCHANGED restVars

NextBody == GetEmailBodyCall

SpecBody == InitBody /\ [][NextBody]_vars

\* ------------------------------------------------------------ search_gdrive
\* The longest query, in pieces of text.
MaxPhraseLen == 3

\* How far below 1 and above 100 the page sizes of the callers go.
PageMargin == 2

\* The pieces a query is made of: words, a quote, a backslash, a blank.
Pieces == {"O", "Brien", "'", "\\", " ", "sheet", "Doc", "presentation", "slide"}

\* query: str
Phrases == UNION {[1..n -> Pieces] : n \in 0..MaxPhraseLen}

\* str.lower(), piece by piece.
Lower(c) ==
    CASE c = "O" -> "o"
      [] c = "Brien" -> "brien"
      [] c = "Doc" -> "doc"
      [] OTHER -> c

\* str.strip(): the blanks at both ends go.
RECURSIVE Strip(_)
Strip(s) ==
    IF s = <<>> THEN s
    ELSE IF Head(s) = " " THEN Strip(Tail(s))
    ELSE IF s[Len(s)] = " " THEN Strip(SubSeq(s, 1, Len(s) - 1))
    ELSE s

\* word in user_query.lower()
Mentions(s, word) == \E i \in 1..Len(s) : Lower(s[i]) = word

\* str.replace(old, new) for a one-character old.
RECURSIVE Replace(_, _, _)
Replace(s, old, new) ==
    IF s = <<>> THEN <<>>
    ELSE (IF Head(s) = old THEN new ELSE <<Head(s)>>) \o Replace(Tail(s), old, new)

\* An escaping that does the quotes first and the backslashes second.
EscapeQuotesFirst(s) == Replace(Replace(s, "'", <<"\\", "'">>), "\\", <<"\\", "\\">>)

\* user_query.replace("\\", "\\\\").replace("'", "\\'") (line 824)
Escape(s) == Replace(Replace(s, "\\", <<"\\", "\\">>), "'", <<"\\", "'">>)

Spreadsheet == "application/vnd.google-apps.spreadsheet"
Document == "application/vnd.google-apps.document"
Presentation == "application/vnd.google-apps.presentation"

\* The mimeType condition the words of the query add (lines 833-838), in the
\* order of the elif chain; "none" if there is none.
InferredMime(s) ==
    IF Mentions(s, "sheet") THEN Spreadsheet
    ELSE IF Mentions(s, "doc") THEN Document
    ELSE IF Mentions(s, "presentation") \/ Mentions(s, "slide") THEN Presentation
    ELSE "none"

\* conditions (lines 827-838)
Conditions(s) ==
    <<[field |-> "name", op |-> "contains", lit |-> Escape(s)]>>
        \o (IF InferredMime(s) = "none" THEN <<>>
            ELSE <<[field |-> "mimeType", op |-> "=", lit |-> <<InferredMime(s)>>]>>)

\* search_query (lines 816-840): "trashed = false" alone for an empty
\* user_query, else the conditions joined by ' or ', in brackets, and trashed =
\* false.
SearchQuery(query) ==
    LET user_query == Strip(query)
    IN  IF user_query = <<>>
        THEN [conds |-> <<>>, join |-> "none", tail |-> "trashed = false"]
        ELSE [conds |-> Conditions(user_query), join |-> "or",
              tail |-> "and trashed = false"]

PageSizeMin == 1
PageSizeMax == 100
PageSizeDefault == 10

Max2(a, b) == IF a >= b THEN a ELSE b
Min2(a, b) == IF a <= b THEN a ELSE b

\* page_size: Optional[int]
PageSizes ==
    {NotGiven} \cup Given(((PageSizeMin - 1 - PageMargin)..(PageSizeMin + PageMargin))
                            \cup {PageSizeDefault}
                            \cup ((PageSizeMax - PageMargin)..(PageSizeMax + PageMargin))
                            \cup {5 * PageSizeMax})

\* A page size with the upper limit only.
PageSizeSentNoFloor(ps) ==
    Min2(IF ps.given THEN ps.val ELSE PageSizeDefault, PageSizeMax)

\* Lines 843-845: None is 10, then min(max(1, page_size), 100).
PageSizeSent(ps) ==
    Min2(Max2(PageSizeMin, IF ps.given THEN ps.val ELSE PageSizeDefault), PageSizeMax)

\* No files().list request.
NoRequest == [q |-> [conds |-> <<>>, join |-> "none", tail |-> "none"], pageSize |-> 0]

\* search_gdrive from entry to return; credsOk is what get_google_credentials
\* returned, o what files().list does.
SearchGdriveCall ==
    /\ io.pc = "idle"
    /\ \E query \in Phrases, ps \in PageSizes, credsOk \in BOOLEAN, o \in ExtOutcomes :
        LET r == HandlerResult("search_gdrive", credsOk, FALSE, o)
        IN  io' = [pc |-> "done", query |-> query, page_size |-> ps, credsOk |-> credsOk,
                   sent |-> r.ext,
                   req |-> IF r.ext
                           THEN [q |-> SearchQuery(query), pageSize |-> PageSizeSent(ps)]
                           ELSE NoRequest,
                   res |-> r]
    /\ UNCHANGED restVars

InitDrive == RestIdle /\ io = IoIdle

NextDrive ==
    \/ SearchGdriveCall
    \/ IoFinish

SpecDrive == InitDrive /\ [][NextDrive]_vars

\* The files of the drive, as a query sees them: whether the name contains the
\* phrase, the type, whether the file is in the bin.
DriveFiles ==
    [nameHit : BOOLEAN, mime : {Spreadsheet, Document, Presentation, "application/pdf"},
     trashed : BOOLEAN]

\* The Drive service's reading of one condition and of a whole q.
Satisfies(f, c) == IF c.field = "name" THEN f.nameHit ELSE <<f.mime>> = c.lit

Matches(f, q) ==
    /\ ~f.trashed
    /\ \/ q.conds = <<>>
       \/ q.join = "or" /\ \E i \in 1..Len(q.conds) : Satisfies(f, q.conds[i])
       \/ q.join = "and" /\ \A i \in 1..Len(q.conds) : Satisfies(f, q.conds[i])

\* The Drive service's reading of a quoted literal: a backslash takes the next
\* character as it is, a quote without one ends the literal. ok is false when a
\* quote or a last backslash is left bare; text is what was read.
RECURSIVE ReadLiteral(_)
ReadLiteral(lit) ==
    IF lit = <<>> THEN [ok |-> TRUE, text |-> <<>>]
    ELSE IF Head(lit) = "\\"
    THEN IF Len(lit) = 1 THEN [ok |-> FALSE, text |-> <<>>]
         ELSE LET rest == ReadLiteral(SubSeq(lit, 3, Len(lit)))
              IN  [ok |-> rest.ok, text |-> <<lit[2]>> \o rest.text]
    ELSE IF Head(lit) = "'" THEN [ok |-> FALSE, text |-> <<>>]
    ELSE LET rest == ReadLiteral(Tail(lit))
         IN  [ok |-> rest.ok, text |-> <<Head(lit)>> \o rest.text]

\* --------------------------------------------------------- read_gdrive_file
\* The most chunks a download takes.
MaxChunks == 3

NativePrefixed ==
    {Document, Spreadsheet, Presentation, "application/vnd.google-apps.drawing",
     "application/vnd.google-apps.form"}

\* The types the metadata of a file can name; "absent": no mimeType in it.
FileMimes ==
    NativePrefixed \cup {"text/plain", "text/csv", "application/json", "application/pdf",
                         "image/png", "absent"}

\* The bytes of a file: UTF-8 text, or bytes that are not UTF-8.
FileBytes == {"hello", "\\xff"}

\* The files read_gdrive_file can be asked for.
DriveContents == [mime : FileMimes, bytes : FileBytes, chunks : 1..MaxChunks]

\* file.get('mimeType', 'application/octet-stream')
MetaMime(m) == IF m = "absent" THEN "application/octet-stream" ELSE m

\* mime_type.startswith('application/vnd.google-apps')
IsNative(m) == m \in NativePrefixed

\* export_mime_type (lines 711-721)
ExportMimeType(m) ==
    CASE m = Document -> "text/markdown"
      [] m = Spreadsheet -> "text/csv"
      [] m = Presentation -> "text/plain"
      [] m = "application/vnd.google-apps.drawing" -> "image/png"
      [] OTHER -> "text/plain"

\* m.startswith('text/') or m == 'application/json' (lines 730, 751)
IsText(m) == m \in {"text/plain", "text/csv", "text/markdown"} \/ m = "application/json"

\* Values of "content": bytes as they came, the str bytes.decode('utf-8')
\* gives, the str base64.b64encode(bytes).decode('utf-8') gives.
AsBytes(b) == [type |-> "bytes", enc |-> "none", of |-> b]
AsText(b) == [type |-> "str", enc |-> "utf-8", of |-> b]
AsBase64(b) == [type |-> "str", enc |-> "base64", of |-> b]
NoContent == [type |-> "none", enc |-> "none", of |-> "none"]

\* content = response if is_text else base64.b64encode(response).decode('utf-8')
\* (line 731); response is the bytes files().export(...).execute() returns.
ExportContent(export_mime_type, response) ==
    IF IsText(export_mime_type) THEN AsBytes(response) ELSE AsBase64(response)

\* The return value of read_gdrive_file with success: True.
FileResult(m, c) ==
    [res |-> OkResult("read_gdrive_file"), mime_type |-> m, is_text |-> IsText(m),
     content |-> c]

\* A return value with success: False, or nothing yet.
NoFile(r) == [res |-> r, mime_type |-> "none", is_text |-> FALSE, content |-> NoContent]

\* Lines 751-759 after the download: text is decoded, which raises
\* UnicodeDecodeError into except Exception for bytes that are not UTF-8.
DownloadResult(m, b) ==
    IF IsText(m)
    THEN IF b = "\\xff" THEN NoFile(FaultResult("read_gdrive_file"))
         ELSE FileResult(m, AsText(b))
    ELSE FileResult(m, AsBase64(b))

ReadIdle(f) == [pc |-> "idle", file |-> f, branch |-> "none", got |-> 0,
                out |-> NoFile(NoResult)]

InitRead == RestIdle /\ io \in {ReadIdle(f) : f \in DriveContents}

\* read_gdrive_file is called (lines 690-695).
ReadGdriveFileCall ==
    /\ io.pc = "idle"
    /\ \E credsOk \in BOOLEAN :
        io' = IF credsOk THEN [io EXCEPT !.pc = "meta"]
              ELSE [io EXCEPT !.pc = "done",
                              !.out = NoFile(AuthFailedResult("read_gdrive_file"))]
    /\ UNCHANGED restVars

\* service.files().get(fileId, fields="mimeType,name").execute() and the
\* branch on the type (lines 702-710).
FileGet ==
    /\ io.pc = "meta"
    /\ \E o \in ExtOutcomes :
        io' = IF o.kind # "ok"
              THEN [io EXCEPT !.pc = "done", !.out = NoFile(TryResult("read_gdrive_file", o))]
              ELSE IF IsNative(MetaMime(io.file.mime))
              THEN [io EXCEPT !.pc = "export", !.branch = "export"]
              ELSE [io EXCEPT !.pc = "chunk", !.branch = "download"]
    /\ UNCHANGED restVars

\* service.files().export(...).execute() and the return (lines 723-739).
FileExport ==
    /\ io.pc = "export"
    /\ \E o \in ExtOutcomes :
        io' = IF o.kind # "ok"
              THEN [io EXCEPT !.pc = "done", !.out = NoFile(TryResult("read_gdrive_file", o))]
              ELSE LET e == ExportMimeType(MetaMime(io.file.mime))
                   IN  [io EXCEPT !.pc = "done",
                                  !.out = FileResult(e, ExportContent(e, io.file.bytes))]
    /\ UNCHANGED restVars

\* downloader.next_chunk() (lines 747-749); after the last chunk, lines 751-768.
NextChunk ==
    /\ io.pc = "chunk"
    /\ \E o \in ExtOutcomes :
        io' = IF o.kind # "ok"
              THEN [io EXCEPT !.pc = "done", !.out = NoFile(TryResult("read_gdrive_file", o))]
              ELSE IF io.got + 1 < io.file.chunks
              THEN [io EXCEPT !.got = @ + 1]
              ELSE [io EXCEPT !.pc = "done", !.got = @ + 1,
                              !.out = DownloadResult(MetaMime(io.file.mime), io.file.bytes)]
    /\ UNCHANGED restVars

\* The call is answered; the next call may be for any file.
ReadFinish ==
    /\ io.pc = "done"
    /\ \E f \in DriveContents : io' = ReadIdle(f)
    /\ UNCHANGED restVars

NextRead ==
    \/ ReadGdriveFileCall
    \/ FileGet
    \/ FileExport
    \/ NextChunk
    \/ ReadFinish

SpecRead == InitRead /\ [][NextRead]_vars

\* -------------------------------------------------------------- list_events
\* The latest instant a caller names, in days.
MaxDay == 9

\* datetime.isoformat(), and the ISO strings callers pass: the text of an
\* instant.
Iso(t) == [format |-> "iso8601", at |-> t]

\* time_min, time_max: Optional[str]
TimeArgs == {NotGiven} \cup Given({Iso(t) : t \in 0..MaxDay})

\* max_results: int
MaxResultsArgs == {1, 10}

\* x or now_iso
OrDefault(x, d) == IF x.given THEN x.val ELSE d

\* The arguments of events().list (lines 430-441) at the instant t.
ListRequest(time_min, time_max, max_results, t) ==
    [timeMin |-> OrDefault(time_min, Iso(t)),
     timeMax |-> OrDefault(time_max, Iso(t)),
     maxResults |-> max_results]

NoListRequest == [timeMin |-> Iso(-1), timeMax |-> Iso(-1), maxResults |-> 0]

\* list_events from entry to return, called at the instant t; credsOk is what
\* get_google_credentials returned, o what events().list does.
ListEventsCall ==
    /\ io.pc = "idle"
    /\ \E time_min \in TimeArgs, time_max \in TimeArgs, max_results \in MaxResultsArgs,
          t \in 0..MaxTime, credsOk \in BOOLEAN, o \in ExtOutcomes :
        LET r == HandlerResult("list_events", credsOk, FALSE, o)
        IN  io' = [pc |-> "done", time_min |-> time_min, time_max |-> time_max,
                   at |-> t, credsOk |-> credsOk, sent |-> r.ext,
                   req |-> IF r.ext THEN ListRequest(time_min, time_max, max_results, t)
                           ELSE NoListRequest,
                   res |-> r]
    /\ UNCHANGED restVars

InitList == RestIdle /\ io = IoIdle

NextList ==
    \/ ListEventsCall
    \/ IoFinish

SpecList == InitList /\ [][NextList]_vars

\* ------------------------------------------------------------------ claims

\* token.json holds a record whose access token has not expired.
StoredUnexpired ==
    /\ file.kind = "record"
    /\ file.token # NoToken
    /\ file.expiry # NoExpiry
    /\ now < file.expiry

\* Process p reads token.json and takes its branch in this step.
LoadStep(p) == pc[p] = "load" /\ pc'[p] \notin {"load", "idle"}

\* C1: a get_google_credentials that finds the stored access token unexpired
\* returns exactly the stored record, makes no refresh call (the endpoint
\* issues nothing) and leaves the file alone; so consecutive calls inside the
\* expiry window return the same record and the refresh count does not grow.
C1_CachedAcquireNoRefresh ==
    [][\A p \in Procs :
        (LoadStep(p) /\ StoredUnexpired) =>
            /\ pc'[p] = "returned"
            /\ ret'[p] = [some |-> TRUE, token |-> file.token,
                          expiry |-> file.expiry, rt |-> file.rt]
            /\ acq'[p].refreshes = 0
            /\ issued' = issued
            /\ file' = file]_vars

\* A call returned the token an earlier call's refresh had stored, without a
\* refresh of its own.
C1_Witness ==
    \E p \in Procs :
        /\ pc[p] = "returned"
        /\ acq[p].path = "return"
        /\ acq[p].refreshes = 0
        /\ ret[p].some
        /\ ret[p].token > 1
        /\ file.token = ret[p].token

\* C2: when the refresh call of get_google_credentials fails, on the stored
\* path or on the bootstrap path, the call returns no credential and has not
\* written, truncated or created token.json.
C2_RefreshFailureLeavesFile ==
    \A p \in Procs :
        acq[p].failed =>
            /\ pc[p] \in {"returned", "done"}
            /\ ~ret[p].some
            /\ ~acq[p].wrote
            /\ acq[p].path \in {"stored", "boot"}

\* The bootstrap refresh failed with no token file: none was created.
C2_Witness ==
    \E p \in Procs :
        /\ acq[p].failed
        /\ acq[p].path = "boot"
        /\ file.kind = "absent"
        /\ ~ret[p].some

\* C3 (as claimed): every loaded record that is not valid but carries a
\* refresh token is refreshed with its own refresh token.
C3_RefreshableRecordIsRefreshed ==
    [][\A p \in Procs :
        (LoadStep(p) /\ file.kind = "record" /\ file.rt # "none" /\ ~StoredUnexpired) =>
            acq'[p].path = "stored"]_vars

\* The processes between reading token.json and the end of their refresh/write.
InRefreshSection == {p \in Procs : pc[p] \in {"refresh", "open", "write"}}

\* C4 (as claimed): at most one invocation is inside the read-check-refresh-write
\* section at any time.
C4_RefreshSectionExclusive == Cardinality(InRefreshSection) <= 1

\* C5 (as claimed): token.json is absent or parses in every state, the states
\* after a crash included. Stated for the files the program itself leaves: a
\* file emptied by open(TOKEN_FILE, 'w') exists only while its writer is about
\* to fill it.
C5_FileParsesOrAbsent ==
    file.kind = "truncated" => \E p \in Procs : pc[p] = "write"

\* The response envelope of a dispatched result, read as generously as the
\* result allows: a Failure is an isError answer or a dictionary with an "error"
\* key; a Success is an answer without isError whose dictionary, when it is one,
\* says "success": True.
IsFailure(e) == e.isError \/ (e.content.shape = "dict" /\ e.content.errKey)
IsSuccess(e) == ~e.isError /\ (e.content.shape = "dict" => e.content.success)

\* Process p has completed a tool call in which get_google_credentials returned
\* None.
AuthFailedCall(p) == pc[p] = "done" /\ acq[p].called /\ ~ret[p].some

C7_AuthFailureIsFailureEnvelope ==
    \A p \in Procs :
        AuthFailedCall(p) =>
            /\ IsFailure(Dispatch(result[p]))
            /\ ~IsSuccess(Dispatch(result[p]))

\* C8: every completed tool call, whatever the tool and the external outcome,
\* is exactly one of Success and Failure, and a Failure carries no populated
\* success payload.
C8_ExactlyOneVariant ==
    \A p \in Procs :
        pc[p] = "done" =>
            /\ IsSuccess(Dispatch(result[p])) # IsFailure(Dispatch(result[p]))
            /\ IsFailure(Dispatch(result[p])) => result[p].data # "full"

\* search_gdrive ended on an HttpError of the drive service.
C8_Witness ==
    \E p \in Procs :
        /\ pc[p] = "done"
        /\ tool[p] = "search_gdrive"
        /\ result[p].msg = "External"
        /\ IsFailure(Dispatch(result[p]))

\* C9 (as claimed): no fault raised during an external call leaves a handler
\* unclassified.
C9_NoFaultEscapes ==
    \A p \in Procs : pc[p] = "done" => ~result[p].raised

\* C10: the body update_event writes back has, for every field that is not in
\* the argument bag, exactly what the fetched event had (the key absent if it was
\* absent).
C10_AbsentFieldsKeepFetched ==
    cal.sent =>
        \A f \in EventFields :
            ~cal.args[f].given =>
                /\ f \in DOMAIN cal.body <=> f \in DOMAIN cal.fetched
                /\ f \in DOMAIN cal.fetched => cal.body[f] = cal.fetched[f]

\* update_event with only summary set, on an event with a location and
\* attendees, has written: the summary is new, location and attendees are kept.
C10_Witness ==
    /\ cal.pc = "done"
    /\ cal.res.msg = "Ok"
    /\ cal.args = [NoArgs EXCEPT !.summary = [given |-> TRUE, val |-> "s1"]]
    /\ cal.event = [StoredEvent(OptionalFields) EXCEPT !["summary"] = "s1"]

\* C11 (as claimed): an empty list argument is no change. update_event called
\* with attendees = [] writes back the attendees of the fetched event (the key
\* absent if it was absent).
C11_EmptyAttendeesKeepFetched ==
    (cal.sent /\ cal.args.attendees.given /\ cal.args.attendees.val = <<>>) =>
        /\ "attendees" \in DOMAIN cal.body <=> "attendees" \in DOMAIN cal.fetched
        /\ "attendees" \in DOMAIN cal.fetched =>
                cal.body["attendees"] = cal.fetched["attendees"]

\* The modify_email half of C11: an empty add_labels (remove_labels) beside a
\* non-empty other list sends no addLabelIds (removeLabelIds) key.
EmptyLabelListNotSent ==
    (io.pc = "done" /\ io.sent) =>
        /\ ~Truthy(io.add) => "addLabelIds" \notin DOMAIN io.body
        /\ ~Truthy(io.rem) => "removeLabelIds" \notin DOMAIN io.body

\* C12 (as claimed): modify_email with add_labels and remove_labels both empty
\* or absent returns the validation message and has not called the mail
\* service, whatever the message id and whatever get_google_credentials
\* returned.
C12_EmptyLabelsAlwaysValidation ==
    (io.pc = "done" /\ ~Truthy(io.add) /\ ~Truthy(io.rem)) =>
        /\ io.res.msg = "Validation"
        /\ ~io.sent

\* C12 (amended): modify_email with add_labels and remove_labels both empty or
\* absent has not called the mail service, whatever the message id; it returns
\* the validation message when get_google_credentials returned a credential and
\* the authentication-failed message when it returned None.
C12_EmptyLabelsNoMailCall ==
    (io.pc = "done" /\ ~Truthy(io.add) /\ ~Truthy(io.rem)) =>
        /\ ~io.sent
        /\ io.res.msg = IF io.credsOk THEN "Validation" ELSE "AuthFailed"

\* modify_email with add_labels = [] and remove_labels = None, with a
\* credential, returned the validation message.
C12_Witness ==
    /\ io.pc = "done"
    /\ io.credsOk
    /\ io.add = [given |-> TRUE, val |-> <<>>]
    /\ io.rem = NotGiven
    /\ io.res.msg = "Validation"
    /\ ~io.sent

\* The text/plain parts with data of a payload, at every depth.
RECURSIVE HasPlainLeaf(_)
HasPlainLeaf(n) ==
    \/ ~n.hasParts /\ PlainWithData(n)
    \/ \E i \in 1..Len(n.parts) : HasPlainLeaf(n.parts[i])

\* C13 (as claimed): _get_email_body never raises; for a payload with no
\* text/plain leaf anywhere (the empty payload and parts without mimeType or
\* body included) it returns the "could not extract" sentinel; for a payload
\* whose parts hold a single text/plain part with data it returns the decoded
\* text.
C13_NeverRaisesSentinelOrText ==
    io.pc = "done" =>
        /\ ~io.out.raised
        /\ ~HasPlainLeaf(io.payload) => io.out = Returned(CouldNotExtract)
        /\ (io.payload.hasParts /\ Len(io.payload.parts) = 1
                /\ PlainWithData(io.payload.parts[1])) =>
                    io.out = Returned(B64Decode(io.payload.parts[1].body))

\* The first text/plain part with data among ps, depth first, going down into
\* multipart/alternative parts only; NoLeaf if there is none.
NoLeaf == [mime |-> "none"]

RECURSIVE FirstPlainLeaf(_, _)
FirstPlainLeaf(ps, i) ==
    IF i > Len(ps) THEN NoLeaf
    ELSE LET here == IF ~ps[i].hasParts /\ PlainWithData(ps[i]) THEN ps[i]
                     ELSE IF ps[i].mime = "multipart/alternative" /\ ps[i].hasParts
                     THEN FirstPlainLeaf(ps[i].parts, 1)
                     ELSE NoLeaf
         IN  IF here # NoLeaf THEN here ELSE FirstPlainLeaf(ps, i + 1)

\* C14 (as claimed): for a payload with parts in which a text/plain leaf is
\* reachable through multipart/alternative parts at any depth, _get_email_body
\* returns the content of the first such leaf in depth-first order, and not the
\* sentinel.
C14_FirstPlainLeafDepthFirst ==
    (io.pc = "done" /\ io.payload.hasParts
        /\ FirstPlainLeaf(io.payload.parts, 1) # NoLeaf) =>
            /\ io.out = Returned(B64Decode(FirstPlainLeaf(io.payload.parts, 1).body))
            /\ io.out # Returned(CouldNotExtract)

\* C15 (as claimed): the query search_gdrive sends is a conjunction: a file it
\* matches has the phrase in its name and the type the phrase's keyword names
\* (sheet, doc, presentation or slide) and is not in the bin; an empty or blank
\* phrase gives exactly "trashed = false".
C15_QueryIsConjunction ==
    (io.pc = "done" /\ io.sent) =>
        IF Strip(io.query) = <<>>
        THEN io.req.q = [conds |-> <<>>, join |-> "none", tail |-> "trashed = false"]
        ELSE \A f \in DriveFiles :
                Matches(f, io.req.q) =>
                    /\ f.nameHit
                    /\ InferredMime(Strip(io.query)) # "none" =>
                            f.mime = InferredMime(Strip(io.query))
                    /\ ~f.trashed

\* C16: in the name condition every backslash and every single quote of the
\* phrase has a backslash before it: the quoted literal has no bare quote and
\* reads back as the stripped phrase; O'Brien gives O\'Brien.
C16_LiteralEscaped ==
    (io.pc = "done" /\ io.sent /\ Strip(io.query) # <<>>) =>
        /\ io.req.q.conds[1].field = "name"
        /\ ReadLiteral(io.req.q.conds[1].lit) = [ok |-> TRUE, text |-> Strip(io.query)]
        /\ io.query = <<"O", "'", "Brien">> =>
                io.req.q.conds[1].lit = <<"O", "\\", "'", "Brien">>

\* A phrase with a backslash before a quote was sent, each escaped.
C16_Witness ==
    /\ io.pc = "done"
    /\ io.sent
    /\ io.query = <<"\\", "'", "Brien">>
    /\ io.req.q.conds[1].lit = <<"\\", "\\", "\\", "'", "Brien">>

\* C17: the page size search_gdrive sends is between 1 and 100: 10 when none
\* is given, 100 for more than 100, 1 for less than 1, the given value
\* otherwise.
C17_PageSizeClamped ==
    (io.pc = "done" /\ io.sent) =>
        /\ io.req.pageSize \in 1..100
        /\ ~io.page_size.given => io.req.pageSize = 10
        /\ (io.page_size.given /\ io.page_size.val > 100) => io.req.pageSize = 100
        /\ (io.page_size.given /\ io.page_size.val < 1) => io.req.pageSize = 1
        /\ (io.page_size.given /\ io.page_size.val \in 1..100) =>
                io.req.pageSize = io.page_size.val

\* page_size = 0 was sent as 1.
C17_Witness ==
    /\ io.pc = "done"
    /\ io.sent
    /\ io.page_size = [given |-> TRUE, val |-> 0]
    /\ io.req.pageSize = 1

\* C18 (as claimed): read_gdrive_file exports a native file in the format of
\* the static mapping (document: markdown, spreadsheet: CSV, presentation: plain
\* text, drawing: PNG, any other native type: plain text) and downloads any
\* other file chunk by chunk to the end; on both branches is_text is true
\* exactly for a resolved type text/* or JSON, content is base64 exactly when
\* is_text is false, and content is the UTF-8-decoded text when is_text is true.
C18_ExportOrDownloadContent ==
    (io.pc = "done" /\ io.out.res.msg = "Ok") =>
        /\ IF io.file.mime \in NativePrefixed
           THEN /\ io.branch = "export"
                /\ io.out.mime_type =
                        CASE io.file.mime = Document -> "text/markdown"
                          [] io.file.mime = Spreadsheet -> "text/csv"
                          [] io.file.mime = "application/vnd.google-apps.drawing" -> "image/png"
                          [] OTHER -> "text/plain"
           ELSE /\ io.branch = "download"
                /\ io.got = io.file.chunks
                /\ io.out.mime_type = MetaMime(io.file.mime)
        /\ io.out.is_text <=>
                io.out.mime_type \in {"text/plain", "text/csv", "text/markdown", "application/json"}
        /\ io.out.content.enc = "base64" <=> ~io.out.is_text
        /\ io.out.is_text => io.out.content = AsText(io.file.bytes)

\* One week, in days.
Week == 7

\* C19 (as claimed): list_events called without time_min and time_max asks the
\* calendar for the window from now to one week after now, which is not empty.
C19_DefaultWindowIsOneWeek ==
    (io.pc = "done" /\ io.sent /\ ~io.time_min.given /\ ~io.time_max.given) =>
        /\ io.req.timeMin = Iso(io.at)
        /\ io.req.timeMax = Iso(io.at + Week)
        /\ io.req.timeMin.at < io.req.timeMax.at

\* token.json holds no record with a refresh token, and no usable token.
NoRefreshableRecord == ~StoredUnexpired /\ (file.kind # "record" \/ file.rt = "none")

\* C20: one call of get_google_credentials makes at most one refresh call; when
\* a refresh fails the call returns None in that step, without another refresh
\* and without going on to the environment secrets; with no refreshable record
\* and no environment secrets it returns None without any refresh call.
C20_AtMostOneRefreshNoRetry ==
    [][\A p \in Procs :
        /\ acq'[p].refreshes <= 1
        /\ (pc[p] = "refresh" /\ acq'[p].failed) =>
                /\ pc'[p] = "returned"
                /\ ~ret'[p].some
                /\ acq'[p].path = acq[p].path
                /\ issued' = issued
        /\ (LoadStep(p) /\ NoRefreshableRecord /\ ~envSecrets) =>
                /\ pc'[p] = "returned"
                /\ ~ret'[p].some
                /\ acq'[p].refreshes = 0
                /\ issued' = issued]_vars

\* The refresh of the stored record failed with the environment secrets set:
\* the call returned None after its one refresh call.
C20_Witness ==
    \E p \in Procs :
        /\ pc[p] = "returned"
        /\ acq[p].failed
        /\ acq[p].path = "stored"
        /\ acq[p].refreshes = 1
        /\ envSecrets
        /\ ~ret[p].some

\* C21: update_event calls events().update only after events().get succeeded
\* and never when it failed; a 404 of the calendar service, on the fetch, on
\* the write or on delete_event's delete, is answered with the not-found
\* message, and no other HTTP error is.
C21_FetchBeforeWriteNotFound ==
    /\ cal.sent => cal.fetched # NoEvent
    /\ (cal.pc \in {"write", "done"} /\ cal.op = "update_event" /\ cal.fetched = NoEvent) =>
            (cal.pc = "done" /\ ~cal.sent)
    /\ (cal.pc = "done" /\ cal.last.kind = "http") =>
            /\ cal.last.status = 404 => cal.res.msg = "NotFound"
            /\ cal.last.status # 404 => cal.res.msg # "NotFound"

\* update_event on an event another client had deleted: the fetch was answered
\* 404, nothing was written and the not-found message returned.
C21_Witness ==
    /\ cal.pc = "done"
    /\ cal.op = "update_event"
    /\ ~cal.exists
    /\ cal.last = [kind |-> "http", status |-> 404, utf8 |-> FALSE]
    /\ cal.res.msg = "NotFound"
    /\ ~cal.sent

\* token.json exists and does not parse.
Unparseable == file.kind \in {"garbage", "truncated"}

\* Process p, which found token.json unparseable, writes the file and returns
\* in this step.
BootstrapWriteStep(p) ==
    pc[p] = "write" /\ pc'[p] = "returned" /\ acq[p].found \in {"garbage", "truncated"}

\* A load of the file at the end of this step would return the record without
\* a refresh.
NextLoadReturns == AcquireBranch(LoadFile(file', now'), now', envSecrets') = "return"

\* What C22 says in both readings: an unparseable token.json is loaded like an
\* absent one (the bootstrap path with the environment secrets; None, no
\* refresh call and the file left as it was without them), and the write after
\* the bootstrap refresh leaves the record the call returns.
UnparseableLikeAbsent(p) ==
    /\ (LoadStep(p) /\ Unparseable) =>
            /\ acq'[p].path = AcquireBranch(LoadFile(FileAbsent, now), now, envSecrets)
            /\ acq'[p].path = IF envSecrets THEN "boot" ELSE "fail"
            /\ file' = file
            /\ ~envSecrets => (pc'[p] = "returned" /\ ~ret'[p].some /\ issued' = issued)
    /\ BootstrapWriteStep(p) =>
            /\ acq[p].path = "boot"
            /\ file'.kind = "record"
            /\ ret'[p].some
            /\ file' = ToJson(ret'[p])

\* C22 (as claimed): get_google_credentials treats a token.json that does not
\* parse as an absent one, and after its bootstrap refresh it writes a record
\* that the following load returns without a further refresh.
C22_UnparseableFileLikeAbsent ==
    [][\A p \in Procs :
        /\ UnparseableLikeAbsent(p)
        /\ BootstrapWriteStep(p) => NextLoadReturns]_vars

\* C22 (amended): get_google_credentials treats a token.json that does not
\* parse as an absent one, and after its bootstrap refresh it writes a record
\* that a following load returns without a further refresh as long as the
\* written access token has not expired.
C22_UnparseableFileLikeAbsentUntilExpiry ==
    [][\A p \in Procs :
        /\ UnparseableLikeAbsent(p)
        /\ BootstrapWriteStep(p) =>
                /\ file'.token # NoToken
                /\ file'.expiry # NoExpiry
                /\ now' < file'.expiry => NextLoadReturns]_vars

\* A call that found token.json unparseable has refreshed with the environment
\* secrets and written the record it returns.
C22_Witness ==
    \E p \in Procs :
        /\ pc[p] = "returned"
        /\ acq[p].found = "garbage"
        /\ acq[p].path = "boot"
        /\ acq[p].refreshes = 1
        /\ ret[p].some
        /\ file = ToJson(ret[p])
        /\ StoredUnexpired

====
